---- MODULE Spec2Model ----
(***************************************************************************)
(* Model of .github/actions/common/route-category/router.py: one process   *)
(* reads SA, CAT, ROUTES_FILE and GITHUB_OUTPUT from its environment,      *)
(* loads and validates the routing table, resolves a category and reports  *)
(* it.  A string is a sequence of one-character strings, the environment   *)
(* is a record of optional strings, the file system maps a path to a node, *)
(* and every statement group of main() is one action.                      *)
(***************************************************************************)
EXTENDS Naturals, Sequences, FiniteSets

VARIABLES env, fs, fs_before, run, history, pc,
          sa, cat_override, routes_path, routes, category,
          stdout, stderr, exit_status

vars == <<env, fs, fs_before, run, history, pc,
          sa, cat_override, routes_path, routes, category,
          stdout, stderr, exit_status>>

(***************************************************************************)
(* Bounds of the model.                                                    *)
(***************************************************************************)
\* longest raw value of an environment variable, in characters
MaxLen == 2
\* longest list of subactions under one category of a generated table
MaxSubs == 1
\* number of times the script is invoked with the same environment
MaxRuns == 2

(***************************************************************************)
(* Strings.                                                                *)
(***************************************************************************)
Whitespace == {" "}
Chars == Whitespace \cup {"a"}

SeqsUpTo(S, n) == UNION {[1..k -> S] : k \in 0..n}

Strings == SeqsUpTo(Chars, MaxLen)

\* the two names used for categories and subactions: "a" and "aa"
NameA == <<"a">>
NameAA == <<"a", "a">>
Names == {NameA, NameAA}

RECURSIVE LStrip(_)
LStrip(s) == IF s # <<>> /\ Head(s) \in Whitespace THEN LStrip(Tail(s)) ELSE s

RECURSIVE RStrip(_)
RStrip(s) ==
    IF s # <<>> /\ s[Len(s)] \in Whitespace
    THEN RStrip(SubSeq(s, 1, Len(s) - 1))
    ELSE s

\* str.strip()
Strip(s) == RStrip(LStrip(s))

(***************************************************************************)
(* The environment: a variable is unset, or set to a string.               *)
(***************************************************************************)
Unset == [set |-> FALSE, val |-> <<>>]
SetTo(s) == [set |-> TRUE, val |-> s]
EnvVals == {Unset} \cup {SetTo(s) : s \in Strings}

\* os.environ.get(name, "")
EnvGet(v) == IF v.set THEN v.val ELSE <<>>

(***************************************************************************)
(* JSON values, as json.loads returns them.                                *)
(***************************************************************************)
J(t, s, i, p) == [type |-> t, str |-> s, items |-> i, pairs |-> p]
JNull == J("null", <<>>, <<>>, <<>>)
JNum == J("int", <<>>, <<>>, <<>>)
JStr(s) == J("str", s, <<>>, <<>>)
JList(items) == J("list", <<>>, items, <<>>)
\* a dict keeps its keys in insertion order: a sequence of pairs, keys distinct
JDict(pairs) == J("dict", <<>>, <<>>, pairs)
Pair(k, v) == [key |-> k, val |-> v]

Elems == {JStr(n) : n \in Names} \cup {JNum}
SubLists == {JList(i) : i \in SeqsUpTo(Elems, MaxSubs)}
Vals == SubLists \cup {JStr(NameA)}
Tables ==
    {JDict(<<>>)}
    \cup {JDict(<<Pair(k, v)>>) : k \in Names, v \in Vals}
    \cup UNION {{JDict(<<Pair(k1, v1), Pair(k2, v2)>>) :
                    k2 \in Names \ {k1}, v1 \in Vals, v2 \in Vals} : k1 \in Names}

(***************************************************************************)
(* Files.  A file's content is what it held first (bytes that are not      *)
(* UTF-8, text that is not JSON, nothing, or one JSON document) followed   *)
(* by the lines appended to it since.                                      *)
(***************************************************************************)
Content(form, val, tail) == [form |-> form, val |-> val, tail |-> tail]
NoContent == Content("empty", JNull, <<>>)
Absent == [kind |-> "absent", content |-> NoContent]
Dir == [kind |-> "dir", content |-> NoContent]
File(c) == [kind |-> "file", content |-> c]
JsonFile(v) == File(Content("json", v, <<>>))
TextFile == File(Content("text", JNull, <<>>))
BinaryFile == File(Content("binary", JNull, <<>>))
EmptyFile == File(NoContent)

Paths == Strings \ {<<>>}

\* a table of two categories: "aa" is a subaction of category "a" only, and
\* "a" is a subaction of no category
CoreTable == JDict(<<Pair(NameA, JList(<<JStr(NameAA)>>)),
                     Pair(NameAA, JList(<<>>))>>)

RoutesNodes ==
    {Absent, Dir, TextFile, BinaryFile, EmptyFile, JsonFile(JList(<<>>))}
    \cup {JsonFile(t) : t \in Tables}
CoreRoutesNodes == {Absent, JsonFile(CoreTable)}
OutputNodes == {Absent, TextFile}

CoreEnvVals == {Unset} \cup {SetTo(n) : n \in Names}
OutputEnvVals == {Unset, SetTo(<<>>), SetTo(<<" ">>), SetTo(NameA), SetTo(NameAA)}

MkFs(r, o) ==
    [p \in Paths |-> IF p = NameA THEN r ELSE IF p = NameAA THEN o ELSE Absent]

(***************************************************************************)
(* Output lines.                                                           *)
(***************************************************************************)
\* f"category={category}"
OutputLine(c) == [key |-> "category", val |-> c]

Annotation(title, text, arg) ==
    [kind |-> "annotation", title |-> title, text |-> text, arg |-> arg]
Message(text, arg) ==
    [kind |-> "message", title |-> "", text |-> text, arg |-> arg]
Traceback(exc) ==
    [kind |-> "traceback", title |-> "", text |-> exc, arg |-> <<>>]

\* the two lines emit_error prints
ErrorLines(title, text, arg) == <<Annotation(title, text, arg), Message(text, arg)>>

NoCategory == [some |-> FALSE, val |-> <<>>]
Some(c) == [some |-> TRUE, val |-> c]

(***************************************************************************)
(* The state after construction: a fresh process, its environment and the  *)
(* file system it finds.  Either the environment is drawn from all raw     *)
(* values and the file system from the core nodes, or the environment from *)
(* the core values and the file system from all nodes.                     *)
(***************************************************************************)
Fresh ==
    /\ pc = "start"
    /\ sa = <<>>
    /\ cat_override = <<>>
    /\ routes_path = <<>>
    /\ routes = JNull
    /\ category = NoCategory
    /\ stdout = <<>>
    /\ stderr = <<>>
    /\ exit_status = 0

InitWith(E, R) ==
    /\ \E s \in E, c \in E, f \in E, g \in OutputEnvVals :
          env = [SA |-> s, CAT |-> c, ROUTES_FILE |-> f, GITHUB_OUTPUT |-> g]
    /\ \E r \in R, o \in OutputNodes : fs = MkFs(r, o)
    /\ fs_before = fs
    /\ run = 1
    /\ history = <<>>
    /\ Fresh

Init == InitWith(EnvVals, CoreRoutesNodes) \/ InitWith(CoreEnvVals, RoutesNodes)

(***************************************************************************)
(* Helpers of main().                                                      *)
(***************************************************************************)
\* emit_error: two lines on standard error, then SystemExit(1)
EmitError(title, text, arg) ==
    /\ stderr' = stderr \o ErrorLines(title, text, arg)
    /\ exit_status' = 1
    /\ pc' = "exited"

\* an exception nobody catches: the interpreter prints a traceback and the
\* process ends with status 1
Uncaught(exc) ==
    /\ stderr' = Append(stderr, Traceback(exc))
    /\ exit_status' = 1
    /\ pc' = "exited"

\* a plausible slip: is_file() instead of exists()
ExistsIsFile(f, p) == p \in DOMAIN f /\ f[p].kind = "file"

\* Path.exists(): true of a file and of a directory
Exists(f, p) == p \in DOMAIN f /\ f[p].kind # "absent"

\* the exception Path.read_text("utf-8") raises on the node, "" if none
ReadError(node) ==
    IF node.kind = "absent" THEN "FileNotFoundError"
    ELSE IF node.kind = "dir" THEN "IsADirectoryError"
    ELSE IF node.content.form = "binary" THEN "UnicodeDecodeError"
    ELSE ""

\* json.loads accepts the text: exactly one JSON document and nothing after it
Parses(c) == c.form = "json" /\ c.tail = <<>>

\* isinstance(routes, dict) and every value isinstance(v, list)
SchemaOk(r) ==
    /\ r.type = "dict"
    /\ \A i \in 1..Len(r.pairs) : r.pairs[i].val.type = "list"

\* set(routes.keys())
ValidCategories(r) == {r.pairs[i].key : i \in 1..Len(r.pairs)}

\* a plausible slip: str.startswith instead of equality
ContainsPrefix(subs, x) ==
    \E i \in 1..Len(subs.items) :
        /\ subs.items[i].type = "str"
        /\ Len(subs.items[i].str) >= Len(x)
        /\ SubSeq(subs.items[i].str, 1, Len(x)) = x

\* sa in subs, subs a list: some element equals the string
Contains(subs, x) == \E i \in 1..Len(subs.items) : subs.items[i] = JStr(x)

Matching(r, x) == {i \in 1..Len(r.pairs) : Contains(r.pairs[i].val, x)}

\* a plausible slip: the last category listing the subaction wins
LastMatch(r, x) ==
    IF Matching(r, x) = {} THEN NoCategory
    ELSE Some(r.pairs[CHOOSE i \in Matching(r, x) :
                        \A j \in Matching(r, x) : j <= i].key)

\* next((cat for cat, subs in routes.items() if sa in subs), None)
FirstMatch(r, x) ==
    IF Matching(r, x) = {} THEN NoCategory
    ELSE Some(r.pairs[CHOOSE i \in Matching(r, x) :
                        \A j \in Matching(r, x) : i <= j].key)

\* what lines 43-57 decide: a category, or the error to emit
Decided(c) == [ok |-> TRUE, category |-> c, title |-> "", text |-> "", arg |-> <<>>]
Refused(title, text, arg) ==
    [ok |-> FALSE, category |-> <<>>, title |-> title, text |-> text, arg |-> arg]

SearchDecision(r, s) ==
    IF s = <<>>
    THEN Refused("Unsupported subaction",
                 "Subaction is required when category is not provided", <<>>)
    ELSE IF ~FirstMatch(r, s).some
    THEN Refused("Unsupported subaction", "Unsupported subaction '{sa}'", s)
    ELSE Decided(FirstMatch(r, s).val)

\* a plausible slip: a listed subaction is looked up first, CAT only after
DecideSearchFirst(r, cat, s) ==
    IF s # <<>> /\ FirstMatch(r, s).some THEN Decided(FirstMatch(r, s).val)
    ELSE IF cat # <<>>
    THEN IF cat \notin ValidCategories(r)
         THEN Refused("Unsupported category", "Unsupported category '{cat_override}'", cat)
         ELSE Decided(cat)
    ELSE SearchDecision(r, s)

\* a plausible slip: an unknown CAT falls back to the search by subaction
DecideFallback(r, cat, s) ==
    IF cat # <<>> /\ cat \in ValidCategories(r) THEN Decided(cat)
    ELSE IF cat # <<>> /\ (s = <<>> \/ ~FirstMatch(r, s).some)
    THEN Refused("Unsupported category", "Unsupported category '{cat_override}'", cat)
    ELSE SearchDecision(r, s)

\* if cat_override: ... else: ...
Decide(r, cat, s) ==
    IF cat # <<>>
    THEN IF cat \notin ValidCategories(r)
         THEN Refused("Unsupported category", "Unsupported category '{cat_override}'", cat)
         ELSE Decided(cat)
    ELSE SearchDecision(r, s)

\* a plausible slip: open(path, "x"), which refuses an existing file
OpenErrorExclusive(node) ==
    IF node.kind = "dir" THEN "IsADirectoryError"
    ELSE IF node.kind = "file" THEN "FileExistsError"
    ELSE ""

\* the exception open(path, "a") raises on the node, "" if none
OpenError(node) == IF node.kind = "dir" THEN "IsADirectoryError" ELSE ""

\* a plausible slip: open(path, "w"), which truncates
Truncated(node, line) == File(Content("empty", JNull, <<line>>))

\* open(path, "a") then write(line): the node after it
Appended(node, line) ==
    IF node.kind = "file"
    THEN File(Content(node.content.form, node.content.val,
                      Append(node.content.tail, line)))
    ELSE File(Content("empty", JNull, <<line>>))

(***************************************************************************)
(* main(), one action per group of statements.                             *)
(***************************************************************************)
\* lines 23-30: read the environment, bail out if the table is missing
Load ==
    /\ pc = "start"
    /\ sa' = Strip(EnvGet(env.SA))
    /\ cat_override' = Strip(EnvGet(env.CAT))
    /\ routes_path' = Strip(EnvGet(env.ROUTES_FILE))
    /\ IF routes_path' = <<>> \/ ~Exists(fs, routes_path')
       THEN EmitError("Missing routing table",
                      "routes.json not found for route-category action", <<>>)
       ELSE /\ pc' = "loaded"
            /\ UNCHANGED <<stderr, exit_status>>
    /\ UNCHANGED <<env, fs, fs_before, run, history, routes, category, stdout>>

\* lines 34-37: read the file and parse it
Parse ==
    /\ pc = "loaded"
    /\ LET node == fs[routes_path] IN
       IF ReadError(node) # ""
       THEN Uncaught(ReadError(node)) /\ UNCHANGED routes
       ELSE IF ~Parses(node.content)
       THEN /\ EmitError("Invalid routing table",
                         "Failed to parse routes.json: {exc}", <<>>)
            /\ UNCHANGED routes
       ELSE /\ routes' = node.content.val
            /\ pc' = "parsed"
            /\ UNCHANGED <<stderr, exit_status>>
    /\ UNCHANGED <<env, fs, fs_before, run, history, sa, cat_override,
                   routes_path, category, stdout>>

\* lines 40-41: schema validation
Validate ==
    /\ pc = "parsed"
    /\ IF ~SchemaOk(routes)
       THEN EmitError("Invalid routing table",
                      "routes.json must map categories to lists of subactions", <<>>)
       ELSE /\ pc' = "validated"
            /\ UNCHANGED <<stderr, exit_status>>
    /\ UNCHANGED <<env, fs, fs_before, run, history, sa, cat_override,
                   routes_path, routes, category, stdout>>

\* lines 43-57: the override, or the search by subaction
Resolve ==
    /\ pc = "validated"
    /\ LET d == Decide(routes, cat_override, sa) IN
       IF d.ok
       THEN /\ category' = Some(d.category)
            /\ pc' = "resolved"
            /\ UNCHANGED <<stderr, exit_status>>
       ELSE /\ EmitError(d.title, d.text, d.arg)
            /\ UNCHANGED category
    /\ UNCHANGED <<env, fs, fs_before, run, history, sa, cat_override,
                   routes_path, routes, stdout>>

\* lines 60-61: the line on standard output
PrintLine ==
    /\ pc = "resolved"
    /\ stdout' = Append(stdout, OutputLine(category.val))
    /\ pc' = "printed"
    /\ UNCHANGED <<env, fs, fs_before, run, history, sa, cat_override,
                   routes_path, routes, category, stderr, exit_status>>

\* lines 64-67: append to the file GITHUB_OUTPUT names, then return
AppendOutput ==
    /\ pc = "printed"
    /\ LET github_output == env.GITHUB_OUTPUT IN
       IF github_output.set /\ github_output.val # <<>>
       THEN IF OpenError(fs[github_output.val]) # ""
            THEN Uncaught(OpenError(fs[github_output.val])) /\ UNCHANGED fs
            ELSE /\ fs' = [fs EXCEPT ![github_output.val] =
                              Appended(@, OutputLine(category.val))]
                 /\ pc' = "exited"
                 /\ UNCHANGED <<stderr, exit_status>>
       ELSE /\ pc' = "exited"
            /\ UNCHANGED <<fs, stderr, exit_status>>
    /\ UNCHANGED <<env, fs_before, run, history, sa, cat_override,
                   routes_path, routes, category, stdout>>

(***************************************************************************)
(* The pipeline invokes the script again with the same environment; the    *)
(* file system is what the earlier runs left.  history keeps, per earlier  *)
(* run, the routing table file it found and how it ended.                  *)
(***************************************************************************)
RoutesNodeAt(f) ==
    LET p == Strip(EnvGet(env.ROUTES_FILE)) IN
    IF p \in DOMAIN f THEN f[p] ELSE Absent

ErrorTitle ==
    IF stderr # <<>> /\ stderr[1].kind = "annotation" THEN stderr[1].title ELSE ""

Outcome == [status |-> exit_status, error |-> ErrorTitle, out |-> stdout]

Rerun ==
    /\ pc = "exited"
    /\ run < MaxRuns
    /\ run' = run + 1
    /\ history' = Append(history, [table |-> RoutesNodeAt(fs_before),
                                   outcome |-> Outcome])
    /\ fs_before' = fs
    /\ pc' = "start"
    /\ sa' = <<>>
    /\ cat_override' = <<>>
    /\ routes_path' = <<>>
    /\ routes' = JNull
    /\ category' = NoCategory
    /\ stdout' = <<>>
    /\ stderr' = <<>>
    /\ exit_status' = 0
    /\ UNCHANGED <<env, fs>>

Next ==
    \/ Load
    \/ Parse
    \/ Validate
    \/ Resolve
    \/ PrintLine
    \/ AppendOutput
    \/ Rerun

Spec == Init /\ [][Next]_vars

(***************************************************************************)
(* Vocabulary of the properties, in terms of what the run was given (the   *)
(* environment, the file system before the run) and what it produced       *)
(* (standard output, standard error, exit status, the file system after).  *)
(***************************************************************************)
\* SA, CAT as the specification names them: trimmed, absent read as empty
SA == Strip(EnvGet(env.SA))
CAT == Strip(EnvGet(env.CAT))

\* a variable that is absent or holds nothing but whitespace
Blank(v) == ~v.set \/ \A i \in 1..Len(v.val) : v.val[i] \in Whitespace

\* the node ROUTES_FILE referenced when the current run started
InputNode == RoutesNodeAt(fs_before)
InputTable == InputNode.content.val

\* the file held one JSON document that is a mapping
HasMapping ==
    /\ InputNode.kind = "file"
    /\ InputNode.content.form = "json"
    /\ InputNode.content.tail = <<>>
    /\ InputTable.type = "dict"

\* a valid routing table: a mapping from category to a list of strings
ValidTable ==
    /\ HasMapping
    /\ \A i \in 1..Len(InputTable.pairs) :
          /\ InputTable.pairs[i].val.type = "list"
          /\ \A k \in 1..Len(InputTable.pairs[i].val.items) :
                InputTable.pairs[i].val.items[k].type = "str"

Keys == {InputTable.pairs[i].key : i \in 1..Len(InputTable.pairs)}

\* category number i of the table lists the string x
Lists(i, x) ==
    \E k \in 1..Len(InputTable.pairs[i].val.items) :
        /\ InputTable.pairs[i].val.items[k].type = "str"
        /\ InputTable.pairs[i].val.items[k].str = x

Listed(x) == \E i \in 1..Len(InputTable.pairs) : Lists(i, x)

Exited == pc = "exited"
Succeeded == Exited /\ exit_status = 0
Failed == Exited /\ exit_status # 0

MissingRoutingTable == "Missing routing table"
InvalidRoutingTable == "Invalid routing table"
UnsupportedCategory == "Unsupported category"
UnsupportedSubaction == "Unsupported subaction"
ErrorKinds == {MissingRoutingTable, InvalidRoutingTable,
               UnsupportedCategory, UnsupportedSubaction}

\* standard error holds an annotation with a title and a message, and the
\* message again
Annotated ==
    /\ Len(stderr) = 2
    /\ stderr[1].kind = "annotation"
    /\ stderr[1].title # ""
    /\ stderr[1].text # ""
    /\ stderr[2].kind = "message"
    /\ stderr[2].text = stderr[1].text

FailedWith(kind) ==
    /\ Failed
    /\ exit_status = 1
    /\ Annotated
    /\ stderr[1].title = kind
    /\ stdout = <<>>

Resolved(c) == Succeeded /\ stdout = <<OutputLine(c)>> /\ stderr = <<>>

IsTextFile == InputNode.kind = "file" /\ InputNode.content.form # "binary"

C3_SchemaValidation ==
    /\ pc \in {"validated", "resolved", "printed"} => ValidTable
    /\ Succeeded => ValidTable
    /\ (Exited /\ IsTextFile /\ ~ValidTable) => FailedWith(InvalidRoutingTable)

(***************************************************************************)
(* C4: on every run that ends with a non-zero exit status the file system  *)
(* (the GITHUB_OUTPUT file included) is as it was before the run, standard *)
(* error holds an error annotation with a title and a message, and no      *)
(* category was written to the output file.                                *)
(***************************************************************************)
C4_FailureLeavesNoOutput ==
    Failed => (fs = fs_before /\ Annotated)

(***************************************************************************)
(* C5: with a routing table and a non-empty CAT that is not one of its     *)
(* keys, the run fails with UnsupportedCategory, exit status 1, whatever   *)
(* SA is; it never falls back to the search by SA.                         *)
(***************************************************************************)
C5_UnsupportedCategory ==
    (Exited /\ ValidTable /\ CAT # <<>> /\ CAT \notin Keys) =>
        FailedWith(UnsupportedCategory)

\* SA is listed under a category of the table, and the run still failed
C5_Witness ==
    /\ FailedWith(UnsupportedCategory)
    /\ ValidTable /\ CAT # <<>> /\ CAT \notin Keys
    /\ SA # <<>> /\ Listed(SA)

(***************************************************************************)
(* C6: with a valid routing table and CAT absent or only whitespace, the   *)
(* run fails with UnsupportedSubaction, exit status 1, when SA is absent   *)
(* or only whitespace or when no category lists SA; nothing is resolved.   *)
(***************************************************************************)
C6_UnsupportedSubaction ==
    (Exited /\ ValidTable /\ Blank(env.CAT) /\ (Blank(env.SA) \/ ~Listed(SA))) =>
        (FailedWith(UnsupportedSubaction) /\ ~category.some)

\* CAT is set to whitespace and SA names a subaction no category lists,
\* though a category lists a longer name that starts with it
C6_Witness ==
    /\ FailedWith(UnsupportedSubaction)
    /\ ValidTable /\ env.CAT.set /\ env.CAT.val # <<>> /\ Blank(env.CAT)
    /\ ~Blank(env.SA) /\ ~Listed(SA)
    /\ Listed(SA \o <<"a">>)

AfterAppend(p, line) ==
    /\ p \in DOMAIN fs
    /\ fs[p] = File(Content(fs_before[p].content.form, fs_before[p].content.val,
                            Append(fs_before[p].content.tail, line)))
    /\ \A q \in DOMAIN fs \ {p} : fs[q] = fs_before[q]

C8_SuccessOutput ==
    Succeeded =>
        /\ category.some
        /\ stdout = <<OutputLine(category.val)>>
        /\ IF env.GITHUB_OUTPUT.set /\ env.GITHUB_OUTPUT.val # <<>>
           THEN AfterAppend(env.GITHUB_OUTPUT.val, OutputLine(category.val))
           ELSE fs = fs_before

\* C8 as stated: the append happens whenever GITHUB_OUTPUT is set
C8_AsStated ==
    Succeeded =>
        /\ category.some
        /\ stdout = <<OutputLine(category.val)>>
        /\ IF env.GITHUB_OUTPUT.set
           THEN AfterAppend(env.GITHUB_OUTPUT.val, OutputLine(category.val))
           ELSE fs = fs_before

\* the output file existed with earlier content and received the line
C8_Witness ==
    /\ Succeeded
    /\ env.GITHUB_OUTPUT.set /\ env.GITHUB_OUTPUT.val # <<>>
    /\ fs_before[env.GITHUB_OUTPUT.val].kind = "file"
    /\ fs_before[env.GITHUB_OUTPUT.val].content.form = "text"
    /\ fs[env.GITHUB_OUTPUT.val].content.tail = <<OutputLine(category.val)>>

(***************************************************************************)
(* C9: two runs with the same SA, CAT, ROUTES_FILE and routing table       *)
(* content end the same way (same exit status, same error kind, same       *)
(* resolved category), whatever the GITHUB_OUTPUT file held and however    *)
(* many earlier runs appended to it.                                       *)
(***************************************************************************)
C9_Deterministic ==
    Exited =>
        \A i \in 1..Len(history) :
            history[i].table = InputNode => history[i].outcome = Outcome

\* a later run resolved a category after an earlier run had already
\* appended its line to the output file
C9_Witness ==
    /\ Succeeded
    /\ run > 1
    /\ history[1].table = InputNode
    /\ history[1].outcome.status = 0
    /\ env.GITHUB_OUTPUT.set /\ env.GITHUB_OUTPUT.val # <<>>
    /\ Len(fs[env.GITHUB_OUTPUT.val].content.tail) > 1

(***************************************************************************)
(* C10: the checks run in the order table presence, parsing, schema,       *)
(* override, subaction, output, and only the earliest violated check is    *)
(* reported; every run ends in exactly one of success or one of the four   *)
(* error kinds; nothing reaches standard output or the output file before  *)
(* all checks have passed.                                                 *)
(***************************************************************************)
C10_CheckOrdering ==
    /\ Exited =>
          /\ (Succeeded /\ stderr = <<>>) \/ (\E k \in ErrorKinds : FailedWith(k))
          /\ (Blank(env.ROUTES_FILE) \/ InputNode.kind = "absent") =>
                FailedWith(MissingRoutingTable)
          /\ (InputNode.kind = "file" /\ ~ValidTable) =>
                FailedWith(InvalidRoutingTable)
          /\ (ValidTable /\ CAT # <<>> /\ CAT \notin Keys) =>
                FailedWith(UnsupportedCategory)
    /\ stdout # <<>> => pc \in {"printed", "exited"}
    /\ fs # fs_before => Succeeded
====
